---- MODULE Spec2Model ----
(***************************************************************************)
(* Model of the inpainting service of texteraser-pptx-generator            *)
(* (src/services/pptxService.ts): the iterative diffusion filler           *)
(* sharpDiffusion, the coarse-to-fine pyramid hierarchicalInpaint and the  *)
(* promise-based entry point performInpainting.                            *)
(*                                                                         *)
(* A pixel is a tuple <<r, g, b, a>>; a raster is a record [w, h, px] with *)
(* px a function from the pixel index p = y*w + x to its pixel.  The byte  *)
(* index the source uses is idx = 4*p.                                     *)
(***************************************************************************)
EXTENDS Integers, Sequences, FiniteSets, TLC

VARIABLES
    \* ---- performInpainting: arguments and promise ----
    imageSrc,        \* the raster the image source decodes to
    maskSrc,         \* the raster the mask source decodes to
    modeArg,         \* the mode argument as passed: "chart" | "photo" | "undefined"
                     \* | "tiff" (a value outside InpaintMode) | "none"
    mode,            \* the parameter mode, after its default has been applied
    imgLoad,         \* "pending" | "loaded" | "error"
    maskLoad,        \* "pending" | "loaded" | "error"
    loaded,          \* the counter of onLoaded
    promise,         \* "pending" | "resolved" | "rejected"
    result,          \* the raster the resolved data URL encodes, or NoBuf
    processCalls,    \* number of times process() has been entered
    pc,              \* position of the synchronous computation
    canvas,          \* content of ctx's canvas, or NoBuf
    maskCanvas,      \* content of maskCtx's canvas, or NoBuf
    prior,           \* result of an earlier invocation with the same inputs
    \* ---- sharpDiffusion: parameters and locals ----
    data, mData, width, height, maxPasses, preserveContent,
    todoPixels, remaining, pass,
    fpc,             \* "idle" | "loop" | "done"
    orig,            \* the buffer as it was passed to sharpDiffusion
    \* ---- hierarchicalInpaint: locals ----
    level,           \* index of the forEach over scales
    lastCanvas,      \* content of lastCanvas, or NoBuf
    smooth,          \* smoothData read by the final composite, or NoBuf
    \* ---- history of the invocation ----
    allocFailed,     \* some getContext('2d') has returned null
    trail,           \* one record per sharpDiffusion call made by the service
    \* ---- performOCR (geminiService): the mask filter ----
    maskInfo,        \* what getMaskData resolved with, or NoMask
    parsed,          \* the items of the parsed response
    item,            \* number of items the forEach has visited
    reads,           \* the reads of maskInfo.data made for the last item
    filteredResults, \* the boxes pushed so far
    opc,             \* "await" | "filter" | "returned" | "failed"
    \* ---- App: the AppState and the asynchronous runs ----
    step,            \* "API_KEY" | "UPLOAD" | "EDITOR"
    slides,          \* the array appState.slides
    activeSlideId,   \* an id, or Null
    isGlobalProcessing,
    globalStatusText,
    apiKey,          \* "" or the key
    runs,            \* one record per handleProcessingStart call that passed its guards
    created,         \* number of ids generateId has produced
    crashed          \* a render has thrown and the component tree is unmounted

vars == <<imageSrc, maskSrc, modeArg, mode, imgLoad, maskLoad, loaded, promise, result,
          processCalls, pc, canvas, maskCanvas, prior,
          data, mData, width, height, maxPasses, preserveContent,
          todoPixels, remaining, pass, fpc, orig,
          level, lastCanvas, smooth, allocFailed, trail,
          maskInfo, parsed, item, reads, filteredResults, opc,
          step, slides, activeSlideId, isGlobalProcessing, globalStatusText, apiKey,
          runs, created, crashed>>

fillerVars == <<data, mData, width, height, maxPasses, preserveContent,
                todoPixels, remaining, pass, fpc, orig>>

serviceVars == <<imageSrc, maskSrc, modeArg, mode, imgLoad, maskLoad, loaded, promise,
                 result, processCalls, canvas, maskCanvas, prior>>

pyramidVars == <<level, lastCanvas, smooth>>

historyVars == <<allocFailed, trail>>

ocrVars == <<maskInfo, parsed, item, reads, filteredResults, opc>>

appVars == <<step, slides, activeSlideId, isGlobalProcessing, globalStatusText, apiKey,
             runs, created, crashed>>

\* JavaScript's null
Null == 0

NoMask == [width |-> 0, height |-> 0, data |-> <<>>, none |-> TRUE]

\* performOCR has not been called
IdleOcr ==
    /\ maskInfo = NoMask /\ parsed = <<>> /\ item = 0 /\ reads = <<>>
    /\ filteredResults = <<>> /\ opc = "idle"

\* the component is not mounted
IdleApp ==
    /\ step = "none" /\ slides = <<>> /\ activeSlideId = Null
    /\ isGlobalProcessing = FALSE /\ globalStatusText = "" /\ apiKey = ""
    /\ runs = <<>> /\ created = 0 /\ crashed = FALSE

----------------------------------------------------------------------------
(* Bounds of the model *)

\* number of pixels of the largest exhaustively enumerated raster
MaxCells == 4
\* largest maxPasses handed to a direct filler call
MaxPassArg == 3

----------------------------------------------------------------------------
(* Rasters *)

NoBuf == [w |-> 0, h |-> 0, px |-> <<>>, none |-> TRUE]

Buf(w, h, px) == [w |-> w, h |-> h, px |-> px, none |-> FALSE]

Pix(w, h) == 0 .. (w * h - 1)

Transparent == <<0, 0, 0, 0>>

White == <<255, 255, 255, 255>>

Min2(a, b) == IF a < b THEN a ELSE b

Max2(a, b) == IF a > b THEN a ELSE b

RECURSIVE SumOver(_, _, _)
\* sum of channel c of the pixels of f whose index is in S
SumOver(S, f, c) ==
    IF S = {} THEN 0
    ELSE LET p == CHOOSE q \in S : TRUE
         IN  f[p][c] + SumOver(S \ {p}, f, c)

----------------------------------------------------------------------------
(* sharpDiffusion *)

\* line 154: transparent (alpha < 128) in the mask means "erase this"
IsHole_Inclusive(alpha) == alpha <= 128

IsHole(alpha) == alpha < 128

\* Math.round(r / count) for integers r >= 0, count > 0: round half up
MathRound_Above(r, count) == (r + count) \div count

MathRound(r, count) == (2 * r + count) \div (2 * count)

\* lines 184-187: the eight neighbours of (x, y), in the source's order
Neighbors_Orthogonal(x, y) ==
    << <<x, y - 1>>, <<x, y + 1>>, <<x - 1, y>>, <<x + 1, y>>,
       <<x, y - 1>>, <<x, y + 1>>, <<x - 1, y>>, <<x + 1, y>> >>

Neighbors(x, y) ==
    << <<x, y - 1>>, <<x, y + 1>>, <<x - 1, y>>, <<x + 1, y>>,
       <<x - 1, y - 1>>, <<x + 1, y - 1>>, <<x - 1, y + 1>>, <<x + 1, y + 1>> >>

\* lines 189-203: pixel indices of the in-range neighbours with alpha > 0
ValidNeighbors_AnyAlpha(d, w, h, x, y) ==
    { Neighbors(x, y)[i][2] * w + Neighbors(x, y)[i][1] :
        i \in { j \in 1..8 :
                  LET nx == Neighbors(x, y)[j][1]
                      ny == Neighbors(x, y)[j][2]
                  IN  nx >= 0 /\ nx < w /\ ny >= 0 /\ ny < h } }

ValidNeighbors(d, w, h, x, y) ==
    { Neighbors(x, y)[i][2] * w + Neighbors(x, y)[i][1] :
        i \in { j \in 1..8 :
                  LET nx == Neighbors(x, y)[j][1]
                      ny == Neighbors(x, y)[j][2]
                  IN  /\ nx >= 0 /\ nx < w /\ ny >= 0 /\ ny < h
                      /\ d[ny * w + nx][4] > 0 } }

\* lines 205-211: the colour recorded for a pixel with valid neighbours S
NewColor_AlphaKept(d, S) ==
    LET count == Cardinality(S)
    IN  << MathRound(SumOver(S, d, 1), count),
           MathRound(SumOver(S, d, 2), count),
           MathRound(SumOver(S, d, 3), count),
           0 >>

NewColor(d, S) ==
    LET count == Cardinality(S)
    IN  << MathRound(SumOver(S, d, 1), count),
           MathRound(SumOver(S, d, 2), count),
           MathRound(SumOver(S, d, 3), count),
           255 >>

\* lines 147-161: the worklist, in row-major order, as byte indices
RECURSIVE TodoFrom(_, _, _)
TodoFrom(m, p, n) ==
    IF p >= n THEN <<>>
    ELSE IF p + 1 = n THEN (IF IsHole(m[p][4]) THEN <<4 * p>> ELSE <<>>)
    ELSE TodoFrom(m, p, (p + n) \div 2) \o TodoFrom(m, (p + n) \div 2, n)

\* lines 156-158: the hole is cleared unless the content is preserved
ClearedData_Always(d, m, preserve) ==
    [p \in DOMAIN d |-> <<d[p][1], d[p][2], d[p][3], 0>>]

ClearedData(d, m, preserve) ==
    [p \in DOMAIN d |->
        IF IsHole(m[p][4]) /\ ~preserve
        THEN <<d[p][1], d[p][2], d[p][3], 0>>
        ELSE d[p]]

\* line 169: the condition of the pass loop
LoopCond(rem, ps, maxP) == rem > 0 /\ ps < maxP

\* lines 174-212: the body of the worklist loop for one entry idx; st.buf is
\* the buffer the neighbours are read from, st.nf the map newFilled so far
EvalPixel_InPlace(st, w, h, idx) ==
    IF idx = -1 THEN st
    ELSE LET vn == ValidNeighbors(st.buf, w, h, (idx \div 4) % w, (idx \div 4) \div w)
         IN  IF vn = {} THEN st
             ELSE [buf |-> [st.buf EXCEPT ![idx \div 4] = NewColor(st.buf, vn)],
                   nf |-> [k \in DOMAIN st.nf \cup {idx} |->
                             IF k = idx THEN NewColor(st.buf, vn) ELSE st.nf[k]]]

EvalPixel(st, w, h, idx) ==
    IF idx = -1 THEN st
    ELSE LET vn == ValidNeighbors(st.buf, w, h, (idx \div 4) % w, (idx \div 4) \div w)
         IN  IF vn = {} THEN st
             ELSE [buf |-> st.buf,
                   nf |-> [k \in DOMAIN st.nf \cup {idx} |->
                             IF k = idx THEN NewColor(st.buf, vn) ELSE st.nf[k]]]

\* lines 173-213: the worklist loop over the entries lo, lo + 1, ..., hi of
\* todo, in that order: the entries up to the middle one are done before the
\* later ones are started (no entry resizes the buffer, so the test on the
\* state they leave always holds; it fixes the order of evaluation)
RECURSIVE EvalPass(_, _, _, _, _, _)
EvalPass(st, w, h, todo, lo, hi) ==
    IF lo > hi THEN st
    ELSE IF lo = hi THEN EvalPixel(st, w, h, todo[lo])
    ELSE LET mid == (lo + hi) \div 2
             first == EvalPass(st, w, h, todo, lo, mid)
         IN  IF DOMAIN first.buf = DOMAIN st.buf
             THEN EvalPass(first, w, h, todo, mid + 1, hi)
             ELSE st

\* lines 171-213: the pass-local map newFilled when the loop has ended
NewFilled(d, w, h, todo) ==
    EvalPass([buf |-> d, nf |-> <<>>], w, h, todo, 1, Len(todo)).nf

\* lines 215-219: the commit of newFilled into the buffer
Commit(d, nf) ==
    [p \in DOMAIN d |-> IF 4 * p \in DOMAIN nf THEN nf[4 * p] ELSE d[p]]

\* lines 226-229: under SpaceFill a committed pixel leaves the worklist
TodoAfter_Kept(todo, nf, preserve) == todo

TodoAfter(todo, nf, preserve) ==
    [i \in DOMAIN todo |->
        IF ~preserve /\ todo[i] \in DOMAIN nf THEN -1 ELSE todo[i]]

\* lines 233-237: remaining is reduced under SpaceFill only
RemainingAfter_Unreduced(rem, filledCount, preserve) == rem

RemainingAfter(rem, filledCount, preserve) ==
    IF preserve THEN rem ELSE rem - filledCount

\* line 238: SpaceFill leaves the loop after a pass that filled nothing
Broke_AnyPolicy(filledCount, preserve) == filledCount = 0

Broke(filledCount, preserve) == ~preserve /\ filledCount = 0

\* lines 139-163: entry into sharpDiffusion, up to the first loop test
EnterSharpDiffusion(d, m, w, h, maxP, preserve) ==
    \E todo \in {TodoFrom(m, 0, w * h)} :
       /\ orig' = d
       /\ data' = ClearedData(d, m, preserve)
       /\ mData' = m
       /\ width' = w
       /\ height' = h
       /\ maxPasses' = maxP
       /\ preserveContent' = preserve
       /\ todoPixels' = todo
       /\ remaining' = Len(todo)
       /\ pass' = 0
       /\ fpc' = IF LoopCond(Len(todo), 0, maxP) THEN "loop" ELSE "done"

\* lines 169-242: one iteration of the while loop, with the test that follows
FillPass ==
    /\ UNCHANGED ocrVars /\ UNCHANGED appVars
    /\ fpc = "loop"
    /\ \E newFilled \in {NewFilled(data, width, height, todoPixels)} :
       LET filledCount == Cardinality(DOMAIN newFilled)
           broke == Broke(filledCount, preserveContent)
           rem == RemainingAfter(remaining, filledCount, preserveContent)
           ps == IF broke THEN pass ELSE pass + 1
       IN  /\ data' = Commit(data, newFilled)
           /\ todoPixels' = TodoAfter(todoPixels, newFilled, preserveContent)
           /\ remaining' = rem
           /\ pass' = ps
           /\ fpc' = IF broke \/ ~LoopCond(rem, ps, maxPasses) THEN "done" ELSE "loop"
    /\ UNCHANGED <<mData, width, height, maxPasses, preserveContent, orig>>
    /\ UNCHANGED serviceVars
    /\ UNCHANGED pyramidVars
    /\ UNCHANGED historyVars
    /\ UNCHANGED pc

----------------------------------------------------------------------------
(* Inputs *)

\* a raster with a horizontal and vertical colour ramp, fully opaque
Gradient(w, h) ==
    Buf(w, h, [p \in Pix(w, h) |->
                 << 61 * (p % w), 50 * (p \div w) + 5, 255 - 20 * ((p % w) + (p \div w)), 255 >>])

Uniform(w, h, c) == Buf(w, h, [p \in Pix(w, h) |-> c])

\* the ramp with a fully transparent top-left pixel (a PNG with transparency)
Cutout(w, h) ==
    Buf(w, h, [p \in Pix(w, h) |-> IF p = 0 THEN Transparent ELSE Gradient(w, h).px[p]])

Images(w, h) == { Gradient(w, h), Uniform(w, h, White), Cutout(w, h) }

\* the mask with hole set H: alpha lo on the hole, hi elsewhere
MaskOf(w, h, H, lo, hi) ==
    Buf(w, h, [p \in Pix(w, h) |->
                 IF p \in H THEN <<255, 255, 255, lo>> ELSE <<255, 255, 255, hi>>])

Masks(w, h) ==
    { MaskOf(w, h, H, a[1], a[2]) :
        H \in SUBSET Pix(w, h), a \in { <<0, 255>>, <<127, 128>> } }

\* every raster shape of at most MaxCells pixels
Grids == { g \in (1..MaxCells) \X (1..MaxCells) : g[1] * g[2] <= MaxCells }

\* the centre block of a 4x4 raster
Centre4 == {5, 6, 9, 10}

\* a ring of hole pixels in a 5x5 raster around the kept centre pixel 12
Ring5 == {6, 7, 8, 11, 13, 16, 17, 18}

FillerInputs ==
    { [img |-> i, mask |-> m, maxP |-> n, preserve |-> b] :
        i \in UNION { Images(g[1], g[2]) : g \in Grids },
        m \in UNION { Masks(g[1], g[2]) : g \in Grids },
        n \in 0..MaxPassArg, b \in BOOLEAN }

\* line 326: more passes for the base fill, fewer for blending
Passes(isBaseLayer) == IF isBaseLayer THEN 50 ELSE 15

\* the width of a one-row coarsest level whose last pixel is two steps further
\* from the first than the base fill has passes
CoarseRow == Passes(TRUE) + 2

\* line 328 at index 0: the call made for the coarsest level of a photo of
\* 8 * CoarseRow by 1 pixels, white, whose mask keeps the leftmost 8 pixels
CoarsestCall ==
    [img |-> Uniform(CoarseRow, 1, White),
     mask |-> MaskOf(CoarseRow, 1, 1..(CoarseRow - 1), 0, 255),
     maxP |-> Passes(TRUE), preserve |-> FALSE]

MatchedFillerInputs ==
    { c \in FillerInputs : c.img.w = c.mask.w /\ c.img.h = c.mask.h }
      \cup { [img |-> Uniform(4, 4, White), mask |-> MaskOf(4, 4, Centre4, 0, 255),
              maxP |-> 4, preserve |-> FALSE],
             [img |-> Gradient(5, 5), mask |-> MaskOf(5, 5, Ring5, 0, 255),
              maxP |-> 5, preserve |-> FALSE],
             CoarsestCall }

----------------------------------------------------------------------------
(* A direct call of sharpDiffusion *)

IdleService ==
    /\ imageSrc = NoBuf /\ maskSrc = NoBuf /\ modeArg = "none" /\ mode = "none"
    /\ allocFailed = FALSE /\ trail = <<>>
    /\ imgLoad = "pending" /\ maskLoad = "pending" /\ loaded = 0
    /\ promise = "pending" /\ result = NoBuf /\ processCalls = 0
    /\ canvas = NoBuf /\ maskCanvas = NoBuf /\ prior = NoBuf
    /\ level = 0 /\ lastCanvas = NoBuf /\ smooth = NoBuf

FillerInit ==
    /\ IdleOcr /\ IdleApp
    /\ IdleService
    /\ pc = "call"
    /\ \E c \in MatchedFillerInputs :
          /\ data = c.img.px /\ orig = c.img.px /\ mData = c.mask.px
          /\ width = c.img.w /\ height = c.img.h
          /\ maxPasses = c.maxP /\ preserveContent = c.preserve
    /\ todoPixels = <<>> /\ remaining = 0 /\ pass = 0 /\ fpc = "idle"

\* the call itself: lines 147-169
CallSharpDiffusion ==
    /\ UNCHANGED ocrVars /\ UNCHANGED appVars
    /\ pc = "call" /\ fpc = "idle"
    /\ EnterSharpDiffusion(data, mData, width, height, maxPasses, preserveContent)
    /\ pc' = "fill"
    /\ UNCHANGED serviceVars
    /\ UNCHANGED pyramidVars
    /\ UNCHANGED historyVars

\* the colours a second caller's buffer holds at the hole pixels
Repaints == { <<9, 9, 9, 255>>, <<200, 100, 0, 0>> }

\* lines 139-169: when a SpaceFill call has returned, sharpDiffusion is called
\* again with the same mask and maxPasses on a buffer that agrees with the
\* first input at every keep pixel; the first output is kept for comparison
CallAgain ==
    /\ UNCHANGED ocrVars /\ UNCHANGED appVars
    /\ pc = "fill" /\ fpc = "done" /\ mode = "none"
    /\ ~preserveContent /\ prior.none
    /\ prior' = Buf(width, height, data)
    /\ \E c \in Repaints :
          EnterSharpDiffusion([p \in DOMAIN orig |->
                                 IF IsHole(mData[p][4]) THEN c ELSE orig[p]],
                              mData, width, height, maxPasses, FALSE)
    /\ UNCHANGED <<imageSrc, maskSrc, modeArg, mode, imgLoad, maskLoad, loaded, promise,
                   result, processCalls, canvas, maskCanvas, pc>>
    /\ UNCHANGED pyramidVars
    /\ UNCHANGED historyVars

FillerNext == CallSharpDiffusion \/ FillPass \/ CallAgain

FillerSpec == FillerInit /\ [][FillerNext]_vars

----------------------------------------------------------------------------
(* Canvas operations used by performInpainting and hierarchicalInpaint *)

\* drawImage(src, 0, 0) onto a fresh w x h canvas: the source is placed at its
\* natural size, cropped at the canvas edge; uncovered pixels stay transparent
DrawAt(src, w, h) ==
    Buf(w, h, [p \in Pix(w, h) |->
                 IF (p % w) < src.w /\ (p \div w) < src.h
                 THEN src.px[(p \div w) * src.w + (p % w)]
                 ELSE Transparent])

\* drawImage(src, 0, 0, sw, sh) onto a fresh sw x sh canvas: each destination
\* pixel is the rounded mean of the source pixels its footprint covers (the
\* identity when the sizes agree)
Resample(src, sw, sh) ==
    LET cols(x) == { c \in 0..(src.w - 1) :
                        c * sw < (x + 1) * src.w /\ (c + 1) * sw > x * src.w }
        rows(y) == { r \in 0..(src.h - 1) :
                        r * sh < (y + 1) * src.h /\ (r + 1) * sh > y * src.h }
        foot(p) == { r * src.w + c : r \in rows(p \div sw), c \in cols(p % sw) }
    IN  Buf(sw, sh, [p \in Pix(sw, sh) |->
                       IF foot(p) = {} THEN Transparent
                       ELSE [c \in 1..4 |->
                               MathRound(SumOver(foot(p), src.px, c), Cardinality(foot(p)))]])

\* getImageData(0, 0, w, h) of a canvas: pixels outside it read transparent
GetImageData(cv, w, h) == DrawAt(cv, w, h).px

----------------------------------------------------------------------------
(* hierarchicalInpaint *)

\* line 263: the scales 0.125, 0.25, 0.5, 1.0, as their denominators
scales == <<8, 4, 2, 1>>

\* lines 268-269: Math.ceil(n * scale)
CeilScale(n, den) == (n + den - 1) \div den

\* line 307: the hole test of the guess injection
IsGuessHole(alpha) == alpha < 128

\* line 342: the hole test of the final composite
IsFinalHole(alpha) == alpha < 128

\* lines 305-314: the guess replaces the hole pixels of the level image
Inject(cur, guess, msk) ==
    [p \in DOMAIN cur |->
        IF IsGuessHole(msk[p][4])
        THEN <<guess[p][1], guess[p][2], guess[p][3], 255>>
        ELSE cur[p]]

\* lines 289-316: the level image after the injection, if there is a guess
Inject0(last, cur, sw, sh, msk) ==
    IF last.none THEN cur ELSE Inject(cur, Resample(last, sw, sh).px, msk)

\* the values Math.random() is sampled at, in 24ths: 0, 15/24 and 23/24
RandSet == {0, 15, 23}

\* line 344: (Math.random() - 0.5) * 12, in half units, for Math.random() = k/24
NoiseTimes2_Wide(k) == ((2 * k - 24) * 16) \div 24

NoiseTimes2(k) == ((2 * k - 24) * 12) \div 24

\* the conversion of a store into a Uint8ClampedArray, on a value given in
\* half units: clamp to [0, 255], round to nearest, ties to even
ToUint8Clamp(v2) ==
    LET c == Max2(0, Min2(510, v2))
        f == c \div 2
    IN  IF c % 2 = 0 THEN f ELSE IF f % 2 = 0 THEN f ELSE f + 1

\* lines 346-348: Math.max(0, Math.min(255, smoothData[i] + noise)), stored
Textured(s, k) == ToUint8Clamp(Max2(0, Min2(510, 2 * s + NoiseTimes2(k))))

\* lines 341-351: the final composite, rnd[p] being the draw made for pixel p
Composite(final, sm, msk, rnd) ==
    [p \in DOMAIN final |->
        IF IsFinalHole(msk[p][4])
        THEN <<Textured(sm[p][1], rnd[p]), Textured(sm[p][2], rnd[p]),
               Textured(sm[p][3], rnd[p]), 255>>
        ELSE final[p]]

----------------------------------------------------------------------------
(* performInpainting *)

\* the images and masks an invocation is given
ServiceInputs ==
    { [img |-> i, mask |-> m, mode |-> md] :
        i \in UNION { Images(g[1], g[2]) : g \in Grids },
        m \in UNION { Masks(g[1], g[2]) : g \in Grids },
        md \in {"chart", "photo", "undefined", "tiff"} }

Invocations ==
    { c \in ServiceInputs :
        \/ /\ c.mode \in {"chart", "photo"}
           /\ c.img.w = c.mask.w /\ c.img.h = c.mask.h
        \/ /\ c.mode \in {"chart", "photo"}
           /\ c.img = Gradient(c.img.w, c.img.h)
           /\ c.mask \in { MaskOf(c.mask.w, c.mask.h, {}, 0, 255),
                            MaskOf(c.mask.w, c.mask.h, Pix(c.mask.w, c.mask.h), 0, 255) }
        \/ /\ c.mode \in {"undefined", "tiff"}
           /\ c.img.w = c.mask.w /\ c.img.h = c.mask.h
           /\ c.img = Gradient(c.img.w, c.img.h)
           /\ \A p \in Pix(c.mask.w, c.mask.h) : c.mask.px[p][4] \in {0, 255} }
      \cup { [img |-> Uniform(4, 4, White), mask |-> MaskOf(4, 4, Centre4, 0, 255),
              mode |-> "chart"],
             [img |-> Gradient(5, 5), mask |-> MaskOf(5, 5, Ring5, 0, 255),
              mode |-> "chart"] }

IdleFiller ==
    /\ data = <<>> /\ mData = <<>> /\ width = 0 /\ height = 0
    /\ maxPasses = 0 /\ preserveContent = FALSE /\ orig = <<>>
    /\ todoPixels = <<>> /\ remaining = 0 /\ pass = 0 /\ fpc = "idle"

\* line 360: mode: InpaintMode = 'chart'
DefaultMode(arg) == IF arg = "undefined" THEN "chart" ELSE arg

\* line 407: mode === 'photo' selects the pyramid, anything else the chart fill
IsPhoto(m) == m = "photo"

\* the record kept of a sharpDiffusion call: the forEach index it was made at
\* (-1 for the chart fill), its arguments, and the index of the level whose
\* canvas was injected as the guess (-1 when there was none)
Call(lv, w, h, maxP, preserve, guess) ==
    [level |-> lv, w |-> w, h |-> h, maxP |-> maxP, preserve |-> preserve,
     guess |-> guess]

\* lines 357-384: the state when performInpainting has returned its promise
Init ==
    /\ \E c \in Invocations :
          /\ imageSrc = c.img /\ maskSrc = c.mask
          /\ modeArg = c.mode /\ mode = DefaultMode(c.mode)
    /\ allocFailed = FALSE /\ trail = <<>>
    /\ imgLoad = "pending" /\ maskLoad = "pending" /\ loaded = 0
    /\ promise = "pending" /\ result = NoBuf /\ processCalls = 0
    /\ pc = "loading" /\ canvas = NoBuf /\ maskCanvas = NoBuf /\ prior = NoBuf
    /\ IdleFiller
    /\ level = 0 /\ lastCanvas = NoBuf /\ smooth = NoBuf
    /\ IdleOcr /\ IdleApp

\* reject(...): settles the promise unless it is settled already
Rejected == IF promise = "pending" THEN "rejected" ELSE promise

\* an image that has not loaded has width and height 0 and draws nothing
Decoded(src, st) == IF st = "loaded" THEN src ELSE Buf(0, 0, <<>>)

\* line 373: both images have loaded
LoadedBoth_Either(n) == n >= 1

LoadedBoth(n) == n = 2

\* lines 386-419: process(), up to the first pass of the fill it selects
Process(il, ml) ==
    LET img == Decoded(imageSrc, il)
        mask == Decoded(maskSrc, ml)
        w == img.w
        h == img.h
    IN  /\ processCalls' = processCalls + 1
        /\ \E ctxOk \in BOOLEAN, maskCtxOk \in BOOLEAN :
              IF ~ctxOk
              THEN /\ promise' = Rejected /\ pc' = "end"
                   /\ allocFailed' = TRUE
                   /\ UNCHANGED <<canvas, maskCanvas, result, trail>>
                   /\ UNCHANGED fillerVars /\ UNCHANGED pyramidVars
              ELSE IF ~maskCtxOk
              THEN /\ canvas' = DrawAt(img, w, h)
                   /\ promise' = Rejected /\ pc' = "end"
                   /\ allocFailed' = TRUE
                   /\ UNCHANGED <<maskCanvas, result, trail>>
                   /\ UNCHANGED fillerVars /\ UNCHANGED pyramidVars
              ELSE /\ canvas' = DrawAt(img, w, h)
                   /\ maskCanvas' = DrawAt(mask, w, h)
                   /\ UNCHANGED <<promise, result, allocFailed>>
                   /\ IF IsPhoto(mode)
                      THEN /\ pc' = "pyramid"
                           /\ level' = 0 /\ lastCanvas' = NoBuf
                           /\ UNCHANGED <<smooth, trail>>
                           /\ UNCHANGED fillerVars
                      ELSE /\ pc' = "fill"
                           /\ EnterSharpDiffusion(canvas'.px, maskCanvas'.px,
                                                  w, h, Max2(w, h), FALSE)
                           /\ trail' = Append(trail, Call(-1, w, h, Max2(w, h), FALSE, -1))
                           /\ UNCHANGED pyramidVars

\* lines 371-376: onLoaded
OnLoaded(il, ml) ==
    /\ loaded' = loaded + 1
    /\ IF LoadedBoth(loaded + 1)
       THEN Process(il, ml)
       ELSE /\ UNCHANGED <<promise, result, processCalls, pc, canvas, maskCanvas>>
            /\ UNCHANGED fillerVars /\ UNCHANGED pyramidVars /\ UNCHANGED historyVars

\* line 378: img.onload
ImgOnload ==
    /\ UNCHANGED ocrVars /\ UNCHANGED appVars
    /\ pc = "loading" /\ imgLoad = "pending"
    /\ imgLoad' = "loaded"
    /\ OnLoaded("loaded", maskLoad)
    /\ UNCHANGED <<imageSrc, maskSrc, modeArg, mode, maskLoad, prior>>

\* line 379: mask.onload
MaskOnload ==
    /\ UNCHANGED ocrVars /\ UNCHANGED appVars
    /\ pc = "loading" /\ maskLoad = "pending"
    /\ maskLoad' = "loaded"
    /\ OnLoaded(imgLoad, "loaded")
    /\ UNCHANGED <<imageSrc, maskSrc, modeArg, mode, imgLoad, prior>>

\* line 380: img.onerror
ImgOnerror ==
    /\ UNCHANGED ocrVars /\ UNCHANGED appVars
    /\ pc = "loading" /\ imgLoad = "pending"
    /\ imgLoad' = "error"
    /\ promise' = Rejected
    /\ UNCHANGED <<imageSrc, maskSrc, modeArg, mode, maskLoad, loaded, result, processCalls,
                   pc, canvas, maskCanvas, prior>>
    /\ UNCHANGED fillerVars /\ UNCHANGED pyramidVars /\ UNCHANGED historyVars

\* line 381: mask.onerror
MaskOnerror ==
    /\ UNCHANGED ocrVars /\ UNCHANGED appVars
    /\ pc = "loading" /\ maskLoad = "pending"
    /\ maskLoad' = "error"
    /\ promise' = Rejected
    /\ UNCHANGED <<imageSrc, maskSrc, modeArg, mode, imgLoad, loaded, result, processCalls,
                   pc, canvas, maskCanvas, prior>>
    /\ UNCHANGED fillerVars /\ UNCHANGED pyramidVars /\ UNCHANGED historyVars

\* lines 418-422: the chart fill has returned; the buffer is put back and the
\* canvas is encoded and handed to resolve
ChartFinish_Textured ==
    /\ UNCHANGED ocrVars /\ UNCHANGED appVars
    /\ pc = "fill" /\ fpc = "done" /\ ~IsPhoto(mode)
    /\ \E k \in RandSet :
          /\ canvas' = Buf(width, height,
                           [p \in DOMAIN data |->
                              <<Textured(data[p][1], k), data[p][2], data[p][3], data[p][4]>>])
          /\ result' = canvas'
    /\ promise' = IF promise = "pending" THEN "resolved" ELSE promise
    /\ pc' = "end"
    /\ UNCHANGED <<imageSrc, maskSrc, modeArg, mode, imgLoad, maskLoad, loaded, processCalls,
                   maskCanvas, prior>>
    /\ UNCHANGED fillerVars /\ UNCHANGED pyramidVars /\ UNCHANGED historyVars

ChartFinish ==
    /\ UNCHANGED ocrVars /\ UNCHANGED appVars
    /\ pc = "fill" /\ fpc = "done" /\ ~IsPhoto(mode)
    /\ canvas' = Buf(width, height, data)
    /\ result' = Buf(width, height, data)
    /\ promise' = IF promise = "pending" THEN "resolved" ELSE promise
    /\ pc' = "end"
    /\ UNCHANGED <<imageSrc, maskSrc, modeArg, mode, imgLoad, maskLoad, loaded, processCalls,
                   maskCanvas, prior>>
    /\ UNCHANGED fillerVars /\ UNCHANGED pyramidVars /\ UNCHANGED historyVars

\* lines 267-328: the forEach callback for scales[level], up to the first pass
\* of its sharpDiffusion call; a context that cannot be created ends the
\* callback at once (lines 275, 285, 295)
LevelBegin ==
    /\ UNCHANGED ocrVars /\ UNCHANGED appVars
    /\ pc = "pyramid" /\ level < Len(scales)
    /\ LET sw == CeilScale(canvas.w, scales[level + 1])
           sh == CeilScale(canvas.h, scales[level + 1])
           sImg == Resample(canvas, sw, sh)
           sMask == Resample(maskCanvas, sw, sh)
           isBaseLayer == (level = 0)
       IN  \E ctxOk \in BOOLEAN :
              IF ctxOk
              THEN /\ \E m \in {sMask.px} : \E c \in {Inject0(lastCanvas, sImg.px, sw, sh, m)} :
                         EnterSharpDiffusion(c, m, sw, sh,
                                             Passes(isBaseLayer), ~isBaseLayer)
                   /\ pc' = "fill"
                   /\ trail' = Append(trail,
                                      Call(level, sw, sh, Passes(isBaseLayer), ~isBaseLayer,
                                           IF lastCanvas.none THEN -1
                                           ELSE trail[Len(trail)].level))
                   /\ UNCHANGED allocFailed
                   /\ UNCHANGED pyramidVars
              ELSE /\ level' = level + 1
                   /\ allocFailed' = TRUE
                   /\ UNCHANGED <<pc, lastCanvas, smooth, trail>>
                   /\ UNCHANGED fillerVars
    /\ UNCHANGED serviceVars

\* lines 330-331: the level's fill has returned
LevelEnd ==
    /\ UNCHANGED ocrVars /\ UNCHANGED appVars
    /\ pc = "fill" /\ fpc = "done" /\ IsPhoto(mode)
    /\ lastCanvas' = Buf(width, height, data)
    /\ level' = level + 1
    /\ pc' = "pyramid"
    /\ fpc' = "idle"
    /\ UNCHANGED <<data, mData, width, height, maxPasses, preserveContent,
                   todoPixels, remaining, pass, orig, smooth>>
    /\ UNCHANGED serviceVars
    /\ UNCHANGED historyVars

\* lines 334-353 and 421-422: the final composite with noise, then the canvas
\* is encoded and handed to resolve
FinalComposite ==
    /\ UNCHANGED ocrVars /\ UNCHANGED appVars
    /\ pc = "pyramid" /\ level = Len(scales)
    /\ IF lastCanvas.none
       THEN /\ UNCHANGED <<canvas, smooth>>
            /\ result' = canvas
       ELSE \E sm \in {GetImageData(lastCanvas, canvas.w, canvas.h)} :
            LET holes == { p \in DOMAIN canvas.px : IsFinalHole(maskCanvas.px[p][4]) }
            IN  \E rnd \in [holes -> RandSet] :
                   /\ smooth' = sm
                   /\ canvas' = Buf(canvas.w, canvas.h,
                                    Composite(canvas.px, sm, maskCanvas.px, rnd))
                   /\ result' = canvas'
    /\ promise' = IF promise = "pending" THEN "resolved" ELSE promise
    /\ pc' = "end"
    /\ UNCHANGED <<imageSrc, maskSrc, modeArg, mode, imgLoad, maskLoad, loaded, processCalls,
                   maskCanvas, prior, level, lastCanvas>>
    /\ UNCHANGED fillerVars
    /\ UNCHANGED historyVars

\* lines 357-361: the caller invokes performInpainting again with the same
\* image, mask and chart mode; the first result is kept for comparison
Reinvoke ==
    /\ UNCHANGED ocrVars /\ UNCHANGED appVars
    /\ pc = "end" /\ promise = "resolved" /\ mode = "chart" /\ prior.none
    /\ prior' = result
    /\ imgLoad' = "pending" /\ maskLoad' = "pending" /\ loaded' = 0
    /\ promise' = "pending" /\ result' = NoBuf /\ processCalls' = 0
    /\ pc' = "loading" /\ canvas' = NoBuf /\ maskCanvas' = NoBuf
    /\ data' = <<>> /\ mData' = <<>> /\ width' = 0 /\ height' = 0
    /\ maxPasses' = 0 /\ preserveContent' = FALSE /\ orig' = <<>>
    /\ todoPixels' = <<>> /\ remaining' = 0 /\ pass' = 0 /\ fpc' = "idle"
    /\ allocFailed' = FALSE /\ trail' = <<>>
    /\ UNCHANGED <<imageSrc, maskSrc, modeArg, mode>>
    /\ UNCHANGED pyramidVars

Next ==
    \/ ImgOnload
    \/ MaskOnload
    \/ ImgOnerror
    \/ MaskOnerror
    \/ FillPass
    \/ ChartFinish
    \/ LevelBegin
    \/ LevelEnd
    \/ FinalComposite
    \/ Reinvoke

Spec == Init /\ [][Next]_vars

----------------------------------------------------------------------------
(* Properties of the filler *)

\* the mask handed to the filler marks every pixel / no pixel as a hole
AllHoleMask == \A p \in DOMAIN mData : mData[p][4] < 128

NoHoleMask == \A p \in DOMAIN mData : mData[p][4] >= 128

\* C4: when every pixel is a hole, SpaceFill (preserveContent = FALSE)
\* terminates for every maxPasses >= 0 and leaves every pixel with alpha 0:
\* inside the call every alpha is 0, no pass is ever completed (pass stays 0),
\* and the call has either returned or its single remaining pass can run.
C4_AllHoleSpaceFill ==
    (pc = "fill" /\ AllHoleMask /\ ~preserveContent) =>
        /\ \A p \in DOMAIN data : data[p][4] = 0
        /\ pass = 0
        /\ fpc = "done" \/ (fpc = "loop" /\ ENABLED FillPass)

C4_Witness ==
    /\ pc = "fill" /\ fpc = "done" /\ AllHoleMask /\ ~preserveContent
    /\ maxPasses >= 1 /\ width * height >= 2
    /\ \A p \in DOMAIN data : data[p][4] = 0

\* C5: with a mask that has no hole pixel the filler, under either policy and
\* any maxPasses, leaves every byte of the buffer as it was passed in.
C5_NoHoleUnchanged ==
    (pc = "fill" /\ NoHoleMask) => (data = orig /\ fpc = "done" /\ pass = 0)

C5_Witness ==
    /\ pc = "fill" /\ fpc = "done" /\ NoHoleMask /\ maxPasses >= 1
    /\ preserveContent /\ data = orig /\ width * height >= 2

\* C8: the 4x4 all-white image with the central 2x2 block as hole, filled by
\* SpaceFill with maxPasses = 4, ends with all 16 pixels (255,255,255,255).
C8_Scenario ==
    /\ width = 4 /\ height = 4 /\ maxPasses = 4 /\ ~preserveContent
    /\ orig = Uniform(4, 4, White).px
    /\ mData = MaskOf(4, 4, Centre4, 0, 255).px

C8_WhiteCentreFilled ==
    (pc = "fill" /\ fpc = "done" /\ C8_Scenario) =>
        \A p \in 0..15 : data[p] = White

C8_Witness ==
    /\ pc = "fill" /\ fpc = "done" /\ C8_Scenario
    /\ pass = 1 /\ remaining = 0
    /\ \A i \in 1..4 : todoPixels[i] = -1
    /\ \A p \in Centre4 : orig[p] = White /\ data[p] = White

----------------------------------------------------------------------------
(* Properties of performInpainting *)

Resolved == pc = "end" /\ promise = "resolved"

SameDims == imageSrc.w = maskSrc.w /\ imageSrc.h = maskSrc.h

\* the alpha of the mask image at the position of image pixel p, or -1 when
\* the mask image has no pixel there
MaskAlphaAt(p) ==
    LET x == p % imageSrc.w
        y == p \div imageSrc.w
    IN  IF x < maskSrc.w /\ y < maskSrc.h THEN maskSrc.px[y * maskSrc.w + x][4] ELSE -1

KeepPixels == { p \in Pix(imageSrc.w, imageSrc.h) : MaskAlphaAt(p) >= 128 }

HolePixels == { p \in Pix(imageSrc.w, imageSrc.h) : MaskAlphaAt(p) \in 0..127 }

\* p and q are distinct 8-adjacent pixels of a raster of width w
Adjacent(p, q, w) ==
    /\ p # q
    /\ (p % w) - (q % w) \in {-1, 0, 1}
    /\ (p \div w) - (q \div w) \in {-1, 0, 1}

RECURSIVE ChainedTo(_, _, _)
\* the pixels of All joined to S by a chain of 8-adjacent pixels of All
ChainedTo(S, All, w) ==
    LET more == { q \in All \ S : \E p \in S : Adjacent(p, q, w) }
    IN  IF more = {} THEN S ELSE ChainedTo(S \cup more, All, w)

\* every hole pixel is adjacent to a keep pixel, directly or through a chain
\* of 8-adjacent hole pixels
HolesChainedToKeep ==
    HolePixels \subseteq ChainedTo(KeepPixels, Pix(imageSrc.w, imageSrc.h), imageSrc.w)

Abs(n) == IF n < 0 THEN -n ELSE n

\* C1: in both modes every pixel whose mask alpha is >= 128 has in the output
\* of performInpainting exactly the R, G, B, A it has in the input image.
C1_KeepPixelsUntouched ==
    Resolved =>
        /\ result.w = imageSrc.w /\ result.h = imageSrc.h
        /\ \A p \in KeepPixels : result.px[p] = imageSrc.px[p]

C1_Witness ==
    /\ Resolved /\ mode = "photo"
    /\ \E p \in KeepPixels : MaskAlphaAt(p) = 128 /\ result.px[p] = imageSrc.px[p]
    /\ \E p \in HolePixels : result.px[p] # imageSrc.px[p]

\* C2 (as claimed): in chart mode, for every source image and every mask in
\* which each hole pixel is chained to a keep pixel, every hole pixel has
\* alpha 255 in the output.
C2_ChartHolesOpaque ==
    (Resolved /\ mode = "chart" /\ SameDims /\ HolesChainedToKeep) =>
        \A p \in HolePixels : result.px[p][4] = 255

\* C3 (as claimed): an invocation either returns a buffer of the image's
\* dimensions in which every pixel has alpha 255, or fails and returns no
\* buffer.
C3_CompleteOrError ==
    /\ promise = "resolved" =>
          /\ result.w = imageSrc.w /\ result.h = imageSrc.h
          /\ \A p \in Pix(result.w, result.h) : result.px[p][4] = 255
    /\ promise = "rejected" => result.none

C9_MismatchRejected ==
    ~SameDims =>
        /\ fpc = "idle" /\ pc \in {"loading", "end"}
        /\ promise # "resolved"
        /\ pc = "end" => promise = "rejected"

\* C10: process() starts only after both the image and the mask have loaded,
\* and at most once; if either fails to load the promise is rejected and no
\* pixel work is ever performed.
C10_ProcessAfterBothLoads ==
    /\ processCalls <= 1
    /\ processCalls = 1 => (imgLoad = "loaded" /\ maskLoad = "loaded" /\ loaded = 2)
    /\ (pc \in {"fill", "pyramid"} \/ ~canvas.none \/ fpc # "idle") => processCalls = 1
    /\ (imgLoad = "error" \/ maskLoad = "error") =>
          /\ promise = "rejected" /\ processCalls = 0
          /\ pc = "loading" /\ canvas.none /\ maskCanvas.none /\ result.none
          /\ fpc = "idle"

C10_Witness ==
    /\ processCalls = 1 /\ imgLoad = "loaded" /\ maskLoad = "loaded"
    /\ pc = "fill" /\ fpc = "loop" /\ ~canvas.none

\* the forEach indices at which the pyramid has called sharpDiffusion so far
LevelsRun == [i \in 1..Len(trail) |-> trail[i].level]

\* C11 (as claimed): once any context needed by the invocation could not be
\* created, the invocation never resolves and never returns a result buffer;
\* when it has ended, it has ended with an error.
C11_AllocFailureAborts ==
    allocFailed =>
        /\ promise # "resolved" /\ result.none
        /\ pc = "end" => promise = "rejected"

\* C12 (as claimed): a chart invocation calls the filler once, at full
\* resolution, with SpaceFill and maxPasses = max(width, height), and returns
\* the filler's buffer untextured; a resolved photo invocation has run the
\* four levels of the pyramid and then the texturizer on the last level's
\* canvas; process() runs at most once.
C12_OnePathOnce ==
    /\ processCalls <= 1
    /\ modeArg = "chart" =>
          /\ lastCanvas.none
          /\ Len(trail) <= 1
          /\ \A i \in DOMAIN trail :
                trail[i] = Call(-1, imageSrc.w, imageSrc.h,
                                Max2(imageSrc.w, imageSrc.h), FALSE, -1)
          /\ Resolved => (Len(trail) = 1 /\ result.px = data)
    /\ (modeArg = "photo" /\ Resolved) =>
          (LevelsRun = <<0, 1, 2, 3>> /\ ~lastCanvas.none)

\* C13 (as claimed): an invocation whose mode argument is missing, or is not
\* chart or photo, never enters a fill path and never resolves.
C13_ModeRequired ==
    modeArg \in {"undefined", "tiff"} =>
        /\ fpc = "idle" /\ pc \in {"loading", "end"}
        /\ trail = <<>> /\ promise # "resolved"

RECURSIVE Perms(_)
\* the sequences that list every element of S once
Perms(S) ==
    IF S = {} THEN { <<>> }
    ELSE UNION { { <<x>> \o q : q \in Perms(S \ {x}) } : x \in S }

\* the orders in which a worklist is traversed: every permutation of its
\* entries when it has at most MaxCells of them, else the reversed list and
\* the list with its two halves exchanged
Orders(todo) ==
    LET n == Len(todo)
    IN  IF n <= MaxCells
        THEN { [i \in 1..n |-> todo[q[i]]] : q \in Perms(1..n) }
        ELSE { [i \in 1..n |-> todo[n + 1 - i]],
               [i \in 1..n |-> todo[((i + (n \div 2) - 1) % n) + 1]] }

\* C14: within a pass every neighbour read sees the pre-pass buffer (the
\* evaluation loop leaves the buffer as it was and writes only newFilled), and
\* for both policies the buffer, the worklist's live pixels and remaining after
\* the pass are the same for every order in which the worklist is traversed.
C14_OrderIndependent ==
    fpc = "loop" =>
        \E nf \in { NewFilled(data, width, height, todoPixels) } :
        \E after \in { Commit(data, nf) } :
            \A o \in Orders(todoPixels) :
                \E st \in { EvalPass([buf |-> data, nf |-> <<>>],
                                      width, height, o, 1, Len(o)) } :
                    /\ st.buf = data
                    /\ st.nf = nf
                    /\ Commit(data, st.nf) = after

C14_Witness ==
    /\ fpc = "loop" /\ pass >= 1
    /\ \E i, j \in DOMAIN todoPixels :
          /\ i < j /\ todoPixels[i] # -1 /\ todoPixels[j] # -1
          /\ Adjacent(todoPixels[i] \div 4, todoPixels[j] \div 4, width)
          /\ todoPixels[i] \in DOMAIN NewFilled(data, width, height, todoPixels)
          /\ NewFilled(data, width, height, todoPixels)[todoPixels[i]] #
                data[todoPixels[i] \div 4]

\* C15 (as claimed): two SpaceFill calls whose input buffers agree on every
\* keep pixel and that use the same mask and maxPasses return identical
\* buffers, whatever the inputs hold at the hole pixels.
C15_HoleContentIgnored ==
    (pc = "fill" /\ fpc = "done" /\ ~prior.none) => data = prior.px

\* the worklist as sharpDiffusion builds it from the mask in use
FullWorklist == TodoFrom(mData, 0, width * height)

\* the loop was left by the break after a pass that filled nothing
EndedByBreak == fpc = "done" /\ remaining > 0 /\ pass < maxPasses

\* the number of passes run so far: pass counts every pass but the one that
\* ended in the break
PassesRun == pass + (IF EndedByBreak THEN 1 ELSE 0)

\* C16: under SeamHeal with at least one hole pixel, every hole pixel stays
\* in the worklist for every pass, each pass is counted, the loop continues
\* while fewer than maxPasses passes have run and ends only when exactly
\* maxPasses passes have run.
C16_SeamHealRunsAllPasses ==
    [][ (pc = "fill" /\ fpc = "loop" /\ preserveContent /\ FullWorklist # <<>>) =>
            /\ todoPixels = FullWorklist /\ todoPixels' = FullWorklist
            /\ remaining = Len(FullWorklist) /\ remaining' = remaining
            /\ pass < maxPasses /\ pass' = pass + 1
            /\ fpc' = (IF pass' = maxPasses THEN "done" ELSE "loop") ]_vars

C16_Witness ==
    /\ pc = "fill" /\ fpc = "done" /\ preserveContent
    /\ FullWorklist # <<>> /\ todoPixels = FullWorklist
    /\ maxPasses >= 2 /\ pass = maxPasses
    /\ data # orig

\* the hole pixels of the mask in use
MaskHoles == { p \in DOMAIN mData : IsHole(mData[p][4]) }

\* the pixels still in the worklist
Live(todo) == { todo[i] \div 4 : i \in { j \in DOMAIN todo : todo[j] # -1 } }

\* C17: under SpaceFill the worklist holds exactly the hole pixels not yet
\* filled; a hole pixel filled by a pass leaves the worklist in that same
\* pass, and a hole pixel already committed with alpha 255 is in no later
\* pass's worklist and keeps its value.
C17_FilledLeavesWorklist ==
    [][ (pc = "fill" /\ fpc = "loop" /\ ~preserveContent) =>
            /\ Live(todoPixels) = { p \in MaskHoles : data[p][4] # 255 }
            /\ Live(todoPixels') = { p \in MaskHoles : data'[p][4] # 255 }
            /\ \A p \in MaskHoles :
                  /\ data[p][4] = 255 => data'[p] = data[p]
                  /\ (data[p][4] # 255 /\ data'[p][4] = 255) => p \notin Live(todoPixels')
            /\ \A i \in DOMAIN todoPixels :
                  todoPixels'[i] \in {-1, todoPixels[i]} ]_vars

C17_Witness ==
    /\ pc = "fill" /\ fpc = "loop" /\ ~preserveContent /\ pass >= 1
    /\ \E p \in MaskHoles : data[p][4] = 255 /\ p \notin Live(todoPixels)
    /\ \E p \in MaskHoles :
          /\ p \in Live(todoPixels)
          /\ 4 * p \in DOMAIN NewFilled(data, width, height, todoPixels)

\* C18: under SpaceFill, at every pass boundary remaining is the number of
\* hole pixels not yet filled; the loop ends after a pass exactly when that
\* pass filled nothing, or no hole pixel is left, or maxPasses passes have
\* run; and at most min(maxPasses, holes + 1) passes are run.
C18_SpaceFillTermination ==
    [][ (pc = "fill" /\ fpc = "loop" /\ ~preserveContent) =>
            /\ remaining = Cardinality({ p \in MaskHoles : data[p][4] # 255 })
            /\ remaining' = Cardinality({ p \in MaskHoles : data'[p][4] # 255 })
            /\ remaining > 0 /\ pass < maxPasses
            /\ fpc' = "done" <=> (data' = data \/ remaining' = 0 \/ pass' = maxPasses)
            /\ pass' = (IF data' = data THEN pass ELSE pass + 1)
            /\ PassesRun' = PassesRun + 1
            /\ PassesRun' <= Min2(maxPasses, Cardinality(MaskHoles) + 1) ]_vars

C18_Witness ==
    /\ pc = "fill" /\ fpc = "done" /\ ~preserveContent
    /\ Cardinality(MaskHoles) >= 2
    /\ remaining = 0 /\ PassesRun = 2 /\ pass < maxPasses
    /\ \A p \in MaskHoles : data[p][4] = 255

\* the pixels of the buffer that are 8-adjacent to p and have alpha > 0
ValidAround(p) == { q \in DOMAIN data : Adjacent(p, q, width) /\ data[q][4] > 0 }

\* v is the quotient s / n rounded to the nearest integer, halves upwards
IsRounded(v, s, n) == 2 * n * v <= 2 * s + n /\ 2 * s + n < 2 * n * (v + 1)

\* C19: a pass sets every worklist pixel that has at least one neighbour with
\* alpha > 0 among its 8-adjacent pixels inside the buffer to the rounded
\* per-channel average of those neighbours' pre-pass R, G, B, with alpha 255;
\* a worklist pixel without such a neighbour, and every other pixel, is left
\* unchanged by the pass.
C19_NeighbourAverage ==
    [][ (pc = "fill" /\ fpc = "loop") =>
            \A p \in DOMAIN data :
                \E V \in { ValidAround(p) } :
                    IF p \in Live(todoPixels) /\ V # {}
                    THEN /\ data'[p][4] = 255
                         /\ \A c \in 1..3 :
                               IsRounded(data'[p][c], SumOver(V, data, c), Cardinality(V))
                    ELSE data'[p] = data[p] ]_vars

C19_Witness ==
    /\ pc = "fill" /\ fpc = "loop" /\ pass >= 1
    /\ \E p \in Live(todoPixels) :
          /\ Cardinality(ValidAround(p)) = 3
          /\ \E c \in 1..3 : (2 * SumOver(ValidAround(p), data, c) + 3) % 6 >= 3
          /\ \E c \in 1..3 : (2 * SumOver(ValidAround(p), data, c) + 3) % 6 \in 1..2

\* C20 (as claimed): the sharpDiffusion calls of a photo invocation are made
\* for the levels 1/8, 1/4, 1/2, 1 in that order, each at ceil(original *
\* scale) width and height, the first with SpaceFill and the later ones with
\* SeamHeal, and the guess injected at each level after the first is the
\* canvas filled at the immediately preceding level.
C20_LevelOrderAndGuess ==
    modeArg = "photo" =>
        /\ \A i \in DOMAIN trail :
              /\ trail[i].level = i - 1
              /\ trail[i].w = CeilScale(imageSrc.w, scales[i])
              /\ trail[i].h = CeilScale(imageSrc.h, scales[i])
              /\ trail[i].preserve = (i > 1)
              /\ trail[i].guess = i - 2
        /\ (pc = "pyramid" /\ level > 0) => Len(trail) = level

\* C21 (as claimed): while a level after the coarsest is being filled, the
\* buffer its SeamHeal fill started from holds, at every hole pixel of the
\* level, the R, G, B of the upsampled guess with alpha 255, and at every keep
\* pixel what the level image held before the injection.
C21_GuessInjected ==
    (pc = "fill" /\ IsPhoto(mode) /\ level > 0) =>
        /\ ~lastCanvas.none
        /\ \E g \in { Resample(lastCanvas, width, height).px } :
           \E cur \in { Resample(canvas, width, height).px } :
              \A p \in DOMAIN orig :
                  IF mData[p][4] < 128
                  THEN orig[p] = <<g[p][1], g[p][2], g[p][3], 255>>
                  ELSE orig[p] = cur[p]

\* C22 (as claimed): when the SpaceFill made with the coarsest level's pass
\* budget has returned, and every hole pixel of the level is joined to a keep
\* pixel by a chain of 8-adjacent pixels, every hole pixel has alpha 255.
C22_CoarseBudgetCovers ==
    ( /\ pc = "fill" /\ fpc = "done" /\ ~preserveContent
      /\ maxPasses = Passes(TRUE)
      /\ MaskHoles \subseteq ChainedTo(DOMAIN mData \ MaskHoles, DOMAIN mData, width) ) =>
        \A p \in MaskHoles : data[p][4] = 255

\* C23 (as claimed): when the final composite is about to run, for every hole
\* pixel and every three draws of Math.random() the composite can write that
\* pixel with the first draw's offset on R, the second's on G and the third's
\* on B.
C23_IndependentNoise ==
    (pc = "pyramid" /\ level = Len(scales) /\ ~lastCanvas.none) =>
        \A p \in DOMAIN canvas.px :
            IsFinalHole(maskCanvas.px[p][4]) =>
                \A kr \in RandSet, kg \in RandSet, kb \in RandSet :
                    ENABLED ( /\ FinalComposite
                              /\ result'.px[p] = << Textured(smooth'[p][1], kr),
                                                    Textured(smooth'[p][2], kg),
                                                    Textured(smooth'[p][3], kb),
                                                    255 >> )

\* the keep pixels of the mask in use whose alpha in the buffer passed in is > 0
Seeds == { q \in DOMAIN mData \ MaskHoles : orig[q][4] > 0 }

\* C24: under SpaceFill, for each of R, G, B, every hole pixel that holds
\* alpha 255 holds a value that is at least that channel's value at some keep
\* pixel with alpha > 0 and at most its value at some such keep pixel.
C24_FillWithinKeepRange ==
    (pc = "fill" /\ ~preserveContent) =>
        \A p \in MaskHoles :
            data[p][4] = 255 =>
                \A c \in 1..3 :
                    /\ \E q \in Seeds : orig[q][c] <= data[p][c]
                    /\ \E q \in Seeds : data[p][c] <= orig[q][c]

C24_Witness ==
    /\ pc = "fill" /\ fpc = "done" /\ ~preserveContent /\ pass >= 1
    /\ Cardinality(Seeds) >= 2
    /\ \E p \in MaskHoles :
          /\ data[p][4] = 255
          /\ \E c \in 1..3 : \A q \in Seeds : data[p][c] # orig[q][c]
    /\ \E p \in MaskHoles :
          /\ data[p][4] = 255
          /\ \E c \in 1..3 : \A q \in Seeds : data[p][c] >= orig[q][c]

----------------------------------------------------------------------------
(***************************************************************************)
(* The OCR service (src/services/geminiService.ts, performOCR): the boxes  *)
(* of the response are kept when the mask is transparent at the centre or  *)
(* at a corner of the box.  maskInfo.data holds four bytes per pixel; the  *)
(* model keeps the alpha byte of each pixel, so the byte idx + 3 of the    *)
(* source is data[idx \div 4] here.                                        *)
(***************************************************************************)

Key == "key"

\* what reading a typed array past its end yields
Undefined == -1

\* undefined < 50 is false
LessThan50(v) == v # Undefined /\ v < 50

\* lines 18-29: the masks getMaskData resolves with
MaskShapes == { <<1, 2>>, <<2, 1>>, <<2, 2>> }

MaskInfos ==
    UNION { { [width |-> s[1], height |-> s[2], data |-> d, none |-> FALSE] :
                d \in [0..(s[1] * s[2] - 1) -> {0, 255}] } : s \in MaskShapes }

\* lines 83-86: the coordinates of a box on the 0-1000 scale
Coords == {0, 500, 1000}

Boxes == { b \in [xmin : Coords, xmax : Coords, ymin : Coords, ymax : Coords] :
             b.xmin <= b.xmax /\ b.ymin <= b.ymax }

\* line 102: the arrays JSON.parse returns
Responses ==
    {<<>>} \cup { <<b>> : b \in Boxes } \cup { <<b, c>> : b \in Boxes, c \in Boxes }

\* lines 110-113: a coordinate in pixels, times 1000
ToPixels(c, size) == c * size

\* Math.floor of a value given times 1000
Floor1000(v) == v \div 1000

\* lines 120 and 129: maskInfo.data[b]
DataAt(mi, b) ==
    IF b < 4 * mi.width * mi.height THEN mi.data[b \div 4] ELSE Undefined

\* lines 119-120, 127-129: the read made for the pixel (x, y)
Read(mi, x, y) ==
    LET idx == (y * mi.width + x) * 4
    IN  [x |-> x, y |-> y, at |-> idx + 3, value |-> DataAt(mi, idx + 3)]

\* lines 137-142
Tenths(b) == [xmin |-> b.xmin \div 10, xmax |-> b.xmax \div 10,
              ymin |-> b.ymin \div 10, ymax |-> b.ymax \div 10]

\* lines 40-41: performOCR is entered
OcrInit ==
    /\ IdleService /\ IdleFiller /\ pc = "idle"
    /\ step = "none" /\ slides = <<>> /\ activeSlideId = Null
    /\ isGlobalProcessing = FALSE /\ globalStatusText = ""
    /\ runs = <<>> /\ created = 0 /\ crashed = FALSE
    /\ apiKey \in {"", Key}
    /\ opc = IF apiKey = "" THEN "failed" ELSE "await"
    /\ maskInfo = NoMask /\ parsed = <<>> /\ item = 0 /\ reads = <<>>
    /\ filteredResults = <<>>

\* lines 63-102: Promise.all settles; a rejection of either promise and a
\* response that does not parse are rethrown by the catch block (148-151)
AwaitRejected ==
    /\ opc = "await"
    /\ opc' = "failed"
    /\ UNCHANGED <<maskInfo, parsed, item, reads, filteredResults>>
    /\ UNCHANGED appVars /\ UNCHANGED serviceVars /\ UNCHANGED fillerVars
    /\ UNCHANGED pyramidVars /\ UNCHANGED historyVars /\ UNCHANGED pc

AwaitFulfilled ==
    /\ opc = "await"
    /\ \E mi \in MaskInfos, resp \in Responses, hasText \in BOOLEAN :
          /\ maskInfo' = mi
          /\ parsed' = IF hasText THEN resp ELSE <<>>
          /\ opc' = IF hasText /\ resp # <<>> THEN "filter" ELSE "returned"
    /\ UNCHANGED <<item, reads, filteredResults>>
    /\ UNCHANGED appVars /\ UNCHANGED serviceVars /\ UNCHANGED fillerVars
    /\ UNCHANGED pyramidVars /\ UNCHANGED historyVars /\ UNCHANGED pc

\* lines 108-145: the forEach callback for the next item; line 147 follows
\* the last one
FilterItem ==
    /\ opc = "filter" /\ item < Len(parsed)
    /\ LET box == parsed[item + 1]
           xmin == ToPixels(box.xmin, maskInfo.width)
           xmax == ToPixels(box.xmax, maskInfo.width)
           ymin == ToPixels(box.ymin, maskInfo.height)
           ymax == ToPixels(box.ymax, maskInfo.height)
           centerX == Floor1000((xmin + xmax) \div 2)
           centerY == Floor1000((ymin + ymax) \div 2)
           centre == Read(maskInfo, centerX, centerY)
           tl == Read(maskInfo, Floor1000(xmin), Floor1000(ymin))
           br == Read(maskInfo, Floor1000(xmax), Floor1000(ymax))
           atCentre == LessThan50(centre.value)
           atTL == LessThan50(tl.value)
           isMasked == atCentre \/ atTL \/ LessThan50(br.value)
       IN  /\ reads' = IF atCentre THEN <<centre>>
                       ELSE IF atTL THEN <<centre, tl>>
                       ELSE <<centre, tl, br>>
           /\ filteredResults' = IF isMasked
                                 THEN Append(filteredResults, Tenths(box))
                                 ELSE filteredResults
    /\ item' = item + 1
    /\ opc' = IF item + 1 = Len(parsed) THEN "returned" ELSE "filter"
    /\ UNCHANGED <<maskInfo, parsed>>
    /\ UNCHANGED appVars /\ UNCHANGED serviceVars /\ UNCHANGED fillerVars
    /\ UNCHANGED pyramidVars /\ UNCHANGED historyVars /\ UNCHANGED pc

OcrNext == AwaitRejected \/ AwaitFulfilled \/ FilterItem

OcrSpec == OcrInit /\ [][OcrNext]_vars

\* C25: every read the filter makes for a box with coordinates in 0..1000
\* addresses a pixel (x, y) with 0 <= x < width and 0 <= y < height, at a byte
\* inside the buffer
C25_ReadsInsideMask ==
    \A i \in DOMAIN reads :
        /\ 0 <= reads[i].x /\ reads[i].x < maskInfo.width
        /\ 0 <= reads[i].y /\ reads[i].y < maskInfo.height
        /\ reads[i].at < 4 * maskInfo.width * maskInfo.height
        /\ reads[i].value # Undefined

----------------------------------------------------------------------------
(***************************************************************************)
(* The application component (src/App.tsx with src/types.ts): the AppState *)
(* held by useState, its handlers, and the asynchronous body of            *)
(* handleProcessingStart.  A call of handleProcessingStart that passed its *)
(* guards is a record of runs; it keeps the values the call captured       *)
(* (currentSlideIndex, currentSlide, mode) and its position.  An image is  *)
(* a positive number and a slide id is a positive number.                  *)
(***************************************************************************)

MaxSlides == 3

MaxRuns == 2

\* the data URL the upload step reads from the k-th file it is given; every
\* file is taken to hold a different image
FileImage(k) == k

InpaintModes == {"chart", "photo"}

\* lines 104-111
NewSlide(id, img) ==
    [id |-> id, originalImageSrc |-> img, processedImageSrc |-> Null,
     ocrData |-> <<>>, status |-> "PENDING", isRefineMode |-> FALSE]

\* an index of the array that was never assigned, and the value undefined a
\* spread copies in its place
Slot(k) ==
    [id |-> k, originalImageSrc |-> Null, processedImageSrc |-> Null,
     ocrData |-> <<>>, status |-> "none", isRefineMode |-> FALSE]

Hole == Slot(-1)

UndefinedSlot == Slot(-2)

IsSlide(s) == s.id > 0

\* [...array]: the copy is dense, a hole is copied as undefined
Spread(a) == [i \in DOMAIN a |-> IF a[i] = Hole THEN UndefinedSlot ELSE a[i]]

\* array[k] = v with the source's 0-based k: indices between the old length
\* and k stay holes
AssignAt(a, k, v) ==
    [i \in 1..(IF k + 1 > Len(a) THEN k + 1 ELSE Len(a)) |->
        IF i = k + 1 THEN v ELSE IF i <= Len(a) THEN a[i] ELSE Hole]

\* array.filter(s => s.id !== id): holes are skipped
RECURSIVE FilterOut(_, _)
FilterOut(a, id) ==
    IF a = <<>> THEN <<>>
    ELSE IF Head(a) = Hole \/ Head(a).id = id THEN FilterOut(Tail(a), id)
    ELSE <<Head(a)>> \o FilterOut(Tail(a), id)

\* array.findIndex(s => s.id === id) + 1, 0 when there is none
FindIndex(a, id) ==
    IF \E i \in DOMAIN a : a[i].id = id
    THEN CHOOSE i \in DOMAIN a : a[i].id = id /\ \A j \in 1..(i - 1) : a[j].id # id
    ELSE 0

\* line 263: find calls s.id on a hole or an undefined entry it visits
FindThrows(a, id) ==
    \E i \in DOMAIN a : ~IsSlide(a[i]) /\ \A j \in 1..(i - 1) : a[j].id # id

\* line 348: map skips holes and calls slide.id on an undefined entry
MapThrows(a) == \E i \in DOMAIN a : a[i] = UndefinedSlot

\* lines 263-420: the render of a state throws
RenderThrows(st, a, id) == FindThrows(a, id) \/ (st = "EDITOR" /\ MapThrows(a))

\* line 263
ActiveIndex == FindIndex(slides, activeSlideId)

\* line 390: StepMasking is rendered for the active slide
MaskingShown ==
    /\ step = "EDITOR" /\ activeSlideId # Null /\ ActiveIndex # 0
    /\ (slides[ActiveIndex].status = "PENDING" \/ slides[ActiveIndex].isRefineMode)

\* line 398: StepResult is rendered for the active slide
ResultShown ==
    /\ step = "EDITOR" /\ activeSlideId # Null /\ ActiveIndex # 0
    /\ ~(slides[ActiveIndex].status = "PENDING" \/ slides[ActiveIndex].isRefineMode)

\* the component is mounted and its last render did not throw
Mounted == step # "none" /\ ~crashed

\* lines 59-78: the state after the mount effect
AppInit ==
    /\ IdleService /\ IdleFiller /\ pc = "idle" /\ IdleOcr
    /\ \E storedKey \in {"", Key} :
          /\ apiKey = storedKey
          /\ step = IF storedKey # "" THEN "UPLOAD" ELSE "API_KEY"
    /\ slides = <<>> /\ activeSlideId = Null
    /\ isGlobalProcessing = FALSE /\ globalStatusText = ""
    /\ runs = <<>> /\ created = 0 /\ crashed = FALSE

\* what every handler of the component leaves alone
OutsideApp ==
    /\ UNCHANGED serviceVars /\ UNCHANGED fillerVars /\ UNCHANGED pyramidVars
    /\ UNCHANGED historyVars /\ UNCHANGED pc /\ UNCHANGED ocrVars

\* lines 82-89
handleSaveApiKey ==
    /\ Mounted /\ step = "API_KEY"
    /\ apiKey' = Key /\ step' = "UPLOAD"
    /\ UNCHANGED <<slides, activeSlideId, isGlobalProcessing, globalStatusText,
                   runs, created, crashed>>
    /\ OutsideApp

\* lines 91-101
handleClearApiKey ==
    /\ Mounted /\ apiKey # ""
    /\ step' = "API_KEY" /\ slides' = <<>> /\ activeSlideId' = Null
    /\ isGlobalProcessing' = FALSE /\ globalStatusText' = "" /\ apiKey' = ""
    /\ UNCHANGED <<runs, created, crashed>>
    /\ OutsideApp

\* lines 103-119; StepUpload calls it with at least one image, and shows no
\* drop zone while isLoading
handleImagesUpload ==
    /\ Mounted /\ step = "UPLOAD" /\ ~isGlobalProcessing
    /\ \E n \in 1..(MaxSlides - created) :
          LET images == [i \in 1..n |-> FileImage(created + i)]
              newSlides == [i \in 1..n |-> NewSlide(created + i, images[i])]
          IN  /\ slides' = Spread(slides) \o newSlides
              /\ activeSlideId' = IF activeSlideId # Null THEN activeSlideId
                                  ELSE newSlides[1].id
              /\ created' = created + n
    /\ step' = "EDITOR"
    /\ crashed' = RenderThrows(step', slides', activeSlideId')
    /\ UNCHANGED <<isGlobalProcessing, globalStatusText, apiKey, runs>>
    /\ OutsideApp

\* lines 121-136
deleteSlide ==
    /\ Mounted /\ step = "EDITOR"
    /\ \E i \in DOMAIN slides :
          /\ IsSlide(slides[i])
          /\ LET id == slides[i].id
                 newSlides == FilterOut(slides, id)
             IN  IF Len(newSlides) = 0
                 THEN /\ step' = "UPLOAD" /\ slides' = <<>> /\ activeSlideId' = Null
                 ELSE /\ slides' = newSlides
                      /\ activeSlideId' = IF id = activeSlideId THEN newSlides[1].id
                                          ELSE activeSlideId
                      /\ UNCHANGED step
    /\ crashed' = RenderThrows(step', slides', activeSlideId')
    /\ UNCHANGED <<isGlobalProcessing, globalStatusText, apiKey, runs, created>>
    /\ OutsideApp

\* line 351: a click on a slide of the filmstrip
selectSlide ==
    /\ Mounted /\ step = "EDITOR"
    /\ \E i \in DOMAIN slides :
          /\ IsSlide(slides[i])
          /\ activeSlideId' = slides[i].id
    /\ crashed' = RenderThrows(step, slides, activeSlideId')
    /\ UNCHANGED <<step, slides, isGlobalProcessing, globalStatusText, apiKey,
                   runs, created>>
    /\ OutsideApp

\* line 380: the "new page" tile
newPage ==
    /\ Mounted /\ step = "EDITOR"
    /\ step' = "UPLOAD"
    /\ UNCHANGED <<slides, activeSlideId, isGlobalProcessing, globalStatusText,
                   apiKey, runs, created, crashed>>
    /\ OutsideApp

\* lines 250-259; the button is rendered when slides.length > 0
handleResetAll ==
    /\ Mounted /\ Len(slides) > 0
    /\ step' = "UPLOAD" /\ slides' = <<>> /\ activeSlideId' = Null
    /\ isGlobalProcessing' = FALSE /\ globalStatusText' = ""
    /\ UNCHANGED <<apiKey, runs, created, crashed>>
    /\ OutsideApp

\* lines 150-151
ExitRefine(slide) == [slide EXCEPT !.isRefineMode = FALSE]

\* lines 138-157
handleMaskCancel ==
    /\ Mounted /\ MaskingShown
    /\ IF activeSlideId = Null \/ ActiveIndex = 0 \/ ~slides[ActiveIndex].isRefineMode
       THEN UNCHANGED <<slides, crashed>>
       ELSE /\ slides' = [Spread(slides) EXCEPT ![ActiveIndex] = ExitRefine(slides[ActiveIndex])]
            /\ crashed' = RenderThrows(step, slides', activeSlideId)
    /\ UNCHANGED <<step, activeSlideId, isGlobalProcessing, globalStatusText, apiKey,
                   runs, created>>
    /\ OutsideApp

\* lines 219-222
EnterRefine(slide) == [slide EXCEPT !.isRefineMode = TRUE]

\* lines 210-225
handleRefine ==
    /\ Mounted /\ ResultShown
    /\ activeSlideId # Null
    /\ IF ActiveIndex = 0
       THEN UNCHANGED <<slides, crashed>>
       ELSE /\ slides' = [Spread(slides) EXCEPT ![ActiveIndex] = EnterRefine(slides[ActiveIndex])]
            /\ crashed' = RenderThrows(step, slides', activeSlideId)
    /\ UNCHANGED <<step, activeSlideId, isGlobalProcessing, globalStatusText, apiKey,
                   runs, created>>
    /\ OutsideApp

Reverted_Cleared(slide) ==
    [slide EXCEPT !.processedImageSrc = Null, !.status = "DONE", !.isRefineMode = FALSE]

\* lines 236-241
Reverted(slide) ==
    [slide EXCEPT !.processedImageSrc = slide.originalImageSrc,
                  !.status = "DONE", !.isRefineMode = FALSE]

\* lines 227-244
handleRevertToOriginal ==
    /\ Mounted /\ ResultShown
    /\ activeSlideId # Null
    /\ IF ActiveIndex = 0
       THEN UNCHANGED <<slides, crashed>>
       ELSE /\ slides' = [Spread(slides) EXCEPT ![ActiveIndex] = Reverted(slides[ActiveIndex])]
            /\ crashed' = RenderThrows(step, slides', activeSlideId)
    /\ UNCHANGED <<step, activeSlideId, isGlobalProcessing, globalStatusText, apiKey,
                   runs, created>>
    /\ OutsideApp

Source_Original(currentSlide) == currentSlide.originalImageSrc

\* line 181: the first argument of performInpainting
Source(currentSlide) ==
    IF currentSlide.isRefineMode /\ currentSlide.processedImageSrc # Null
    THEN currentSlide.processedImageSrc
    ELSE currentSlide.originalImageSrc

\* line 173
RunsOCR(currentSlide) == ~currentSlide.isRefineMode

\* line 179
FillText(m) == IF m = "chart" THEN "diffusing" ELSE "blending"

\* lines 159-184, up to the first await
handleProcessingStart ==
    /\ Mounted /\ MaskingShown
    /\ Len(runs) < MaxRuns
    /\ activeSlideId # Null
    /\ ActiveIndex # 0
    /\ \E m \in InpaintModes :
          LET currentSlide == slides[ActiveIndex]
              run == [currentSlideIndex |-> ActiveIndex - 1,
                      currentSlide |-> currentSlide,
                      mode |-> m,
                      currentOCRData |-> currentSlide.ocrData]
          IN  IF RunsOCR(currentSlide)
              THEN /\ globalStatusText' = "recognising"
                   /\ runs' = Append(runs, run @@ [at |-> "ocr", source |-> Null])
              ELSE /\ globalStatusText' = FillText(m)
                   /\ runs' = Append(runs, run @@ [at |-> "inpaint",
                                                   source |-> Source(currentSlide)])
    /\ isGlobalProcessing' = TRUE
    /\ UNCHANGED <<step, slides, activeSlideId, apiKey, created, crashed>>
    /\ OutsideApp

\* a call that has returned ("done") or thrown ("failed"): its captured values
\* are gone
Settled(how) ==
    [currentSlideIndex |-> 0, currentSlide |-> Slot(Null), mode |-> "none",
     currentOCRData |-> <<>>, at |-> how, source |-> Null]

\* line 205: the catch block's update of isGlobalProcessing
Caught(flag) == FALSE

\* lines 203-207; an update of an unmounted component is dropped
Catch(r) ==
    /\ runs' = [runs EXCEPT ![r] = Settled("failed")]
    /\ isGlobalProcessing' = IF crashed THEN isGlobalProcessing
                             ELSE Caught(isGlobalProcessing)
    /\ UNCHANGED <<step, slides, activeSlideId, globalStatusText, apiKey, created, crashed>>

\* line 175: the promise of performOCR is fulfilled; lines 179-184 follow
OcrFulfilled ==
    /\ \E r \in DOMAIN runs :
          /\ runs[r].at = "ocr"
          /\ \E found \in BOOLEAN :
                runs' = [runs EXCEPT ![r].at = "inpaint",
                                     ![r].currentOCRData = IF found THEN <<"text">> ELSE <<>>,
                                     ![r].source = Source(runs[r].currentSlide)]
          /\ globalStatusText' = IF crashed THEN globalStatusText
                                 ELSE FillText(runs[r].mode)
    /\ UNCHANGED <<step, slides, activeSlideId, isGlobalProcessing, apiKey, created, crashed>>
    /\ OutsideApp

\* line 175: the promise of performOCR is rejected
OcrRejected ==
    /\ \E r \in DOMAIN runs : runs[r].at = "ocr" /\ Catch(r)
    /\ OutsideApp

\* the data URL performInpainting resolves with for a source image: an image
\* that is no uploaded image and not the source
Inpainted(source) == source + MaxSlides

\* lines 189-195
Processed(currentSlide, processedImage, currentOCRData) ==
    [currentSlide EXCEPT !.processedImageSrc = processedImage,
                         !.ocrData = currentOCRData,
                         !.status = "DONE",
                         !.isRefineMode = FALSE]

\* lines 180-201: the promise of performInpainting is fulfilled
InpaintFulfilled ==
    /\ \E r \in DOMAIN runs :
          /\ runs[r].at = "inpaint"
          /\ runs' = [runs EXCEPT ![r] = Settled("done")]
          /\ IF crashed
             THEN UNCHANGED <<slides, isGlobalProcessing, crashed>>
             ELSE /\ slides' = AssignAt(Spread(slides), runs[r].currentSlideIndex,
                                        Processed(runs[r].currentSlide, Inpainted(runs[r].source),
                                                  runs[r].currentOCRData))
                  /\ isGlobalProcessing' = FALSE
                  /\ crashed' = RenderThrows(step, slides', activeSlideId)
    /\ UNCHANGED <<step, activeSlideId, globalStatusText, apiKey, created>>
    /\ OutsideApp

\* lines 180-184: the promise of performInpainting is rejected
InpaintRejected ==
    /\ \E r \in DOMAIN runs : runs[r].at = "inpaint" /\ Catch(r)
    /\ OutsideApp

AppNext ==
    \/ handleSaveApiKey
    \/ handleClearApiKey
    \/ handleImagesUpload
    \/ deleteSlide
    \/ selectSlide
    \/ newPage
    \/ handleResetAll
    \/ handleMaskCancel
    \/ handleRefine
    \/ handleRevertToOriginal
    \/ handleProcessingStart
    \/ OcrFulfilled
    \/ OcrRejected
    \/ InpaintFulfilled
    \/ InpaintRejected

AppSpec == AppInit /\ [][AppNext]_vars

FairAppSpec ==
    /\ AppSpec
    /\ WF_vars(OcrFulfilled \/ OcrRejected)
    /\ WF_vars(InpaintFulfilled \/ InpaintRejected)

----------------------------------------------------------------------------
(* Properties of the application component *)

\* the runs that take the step named: they are at one position before it and
\* at another after it
Moves(r, from, to) == r \in DOMAIN runs /\ runs[r].at = from /\ runs'[r].at = to

\* a call of handleProcessingStart passes its guards
Starts == Len(runs') = Len(runs) + 1

\* C26: activeSlideId is null when the slide list is empty and otherwise the
\* id of a slide of the list
C26_ActiveSlideInList ==
    ~crashed =>
        IF Len(slides) = 0 THEN activeSlideId = Null
        ELSE \E i \in DOMAIN slides : IsSlide(slides[i]) /\ slides[i].id = activeSlideId

\* C28: the update that ends a successful run writes the slide the run was
\* started for, and leaves every other entry of the list as it was: the entry
\* it assigns held a slide with the run's id before the update
C28_ResultStoredById ==
    [][\A r \in DOMAIN runs :
          (Moves(r, "inpaint", "done") /\ ~crashed) =>
              LET k == runs[r].currentSlideIndex + 1
              IN  /\ k \in DOMAIN slides
                  /\ slides[k].id = runs[r].currentSlide.id
                  /\ DOMAIN slides' = DOMAIN slides
                  /\ \A i \in DOMAIN slides : i # k => slides'[i] = slides[i]]_vars

\* C27: every slide has status PENDING or DONE, a DONE slide has a processed
\* image, and a slide's original image is the one it was created with
C27_StatusAndImages ==
    \A i \in DOMAIN slides :
        IsSlide(slides[i]) =>
            /\ slides[i].status \in {"PENDING", "DONE"}
            /\ slides[i].status = "DONE" => slides[i].processedImageSrc # Null
            /\ slides[i].originalImageSrc = FileImage(slides[i].id)

\* a state in which a slide was processed by a run and then reverted, and a
\* run has failed
C27_Witness ==
    /\ ~crashed
    /\ \E i \in DOMAIN slides :
          /\ slides[i].status = "DONE"
          /\ slides[i].processedImageSrc = slides[i].originalImageSrc
    /\ \E r \in DOMAIN runs : runs[r].at = "failed"
    /\ \E r \in DOMAIN runs : runs[r].at = "done"

\* C29: a run sets isGlobalProcessing when it starts; no step of a run other
\* than the update after a fulfilled performInpainting changes a slide; and,
\* the promises of performOCR and performInpainting being settled sooner or
\* later, isGlobalProcessing becomes false again
C29_ProcessingFlagLifecycle ==
    /\ [][Starts => isGlobalProcessing']_vars
    /\ [][(\E r \in DOMAIN runs' :
              \/ r \notin DOMAIN runs
              \/ (runs'[r].at # runs[r].at /\ runs'[r].at # "done"))
          => slides' = slides]_vars
    /\ (isGlobalProcessing ~> ~isGlobalProcessing)

====
